---- MODULE Spec2Model ----
(***************************************************************************)
(* Model of skysim/airglow.py: the airglow airmass (airmass_ag), the net   *)
(* scattering multipliers (airglow_scattering) and the flux pipeline       *)
(* (get_airglow) with its deduplication of repeated zenith angles.         *)
(*                                                                         *)
(* Floating point numbers are modelled as fixed point integers with four   *)
(* decimals (the value v stands for v / FP).  numpy arrays are records     *)
(* [shape, data] with data in row-major order; arrays that the code can    *)
(* alias or change in place live in a heap and are named by address.       *)
(***************************************************************************)
EXTENDS Integers, Sequences, FiniteSets, TLC

\* One unit of the fixed point representation: 1.0 is FP.
FP == 10 ^ 4

----------------------------------------------------------------------------
(* Fixed point versions of the numpy primitives the module calls.          *)

Abs(v) == IF v < 0 THEN -v ELSE v

\* Integer quotient rounded to the nearest integer (d > 0).
RDiv(n, d) == (n + d \div 2) \div d

\* Product of two fixed point numbers, rounded to nearest.
FMul(a, b) == RDiv(a * b, FP)

\* Largest r with r * r <= n (n >= 0), by bisection on [lo, hi].
RECURSIVE ISqrtIn(_, _, _)
ISqrtIn(n, lo, hi) ==
    IF lo >= hi THEN lo
    ELSE LET mid == (lo + hi + 1) \div 2
         IN  IF mid * mid <= n THEN ISqrtIn(n, mid, hi) ELSE ISqrtIn(n, lo, mid - 1)

ISqrt(n) == ISqrtIn(n, 0, 46340)

\* np.deg2rad: an angle in hundredths of a degree to fixed point radians.
Deg2Rad(cdeg) == RDiv(cdeg * 31416, 18000)

\* np.sin for 0 <= x <= pi/2, by its Taylor series x - x^3/3! + x^5/5! - ...
RECURSIVE SinTerms(_, _, _, _)
SinTerms(x2, term, k, acc) ==
    IF term = 0 \/ k > 19 THEN acc
    ELSE LET nxt == -RDiv(FMul(term, x2), (k + 1) * (k + 2))
         IN  SinTerms(x2, nxt, k + 2, acc + nxt)

Sin(x) == SinTerms(FMul(x, x), x, 1, x)

\* exp(y) for |y| <= 2, by its Taylor series.
RECURSIVE ExpTerms(_, _, _, _)
ExpTerms(y, term, k, acc) ==
    IF term = 0 \/ k > 16 THEN acc
    ELSE LET nxt == RDiv(FMul(term, y), k)
         IN  ExpTerms(y, nxt, k + 1, acc + nxt)

\* np.exp for y <= 1.0: exp(y) = exp(y / 8) ^ 8 brings the argument into the
\* series' range.
Sq(v) == FMul(v, v)
Exp(y) ==
    IF y < -16 * FP THEN 0
    ELSE Sq(Sq(Sq(ExpTerms(RDiv(y, 8), FP, 1, FP))))

\* Fractional bits of log2(v) for FP <= v < 2 FP, by repeated squaring; the
\* result is in units of 2^-14.
RECURSIVE Log2Frac(_, _, _)
Log2Frac(v, bit, acc) ==
    IF bit = 0 THEN acc
    ELSE LET s == FMul(v, v)
         IN  IF s >= 2 * FP THEN Log2Frac(s \div 2, bit \div 2, acc + bit)
                            ELSE Log2Frac(s, bit \div 2, acc)

\* log2(v) for v >= FP, in units of 2^-14.
RECURSIVE Log2(_)
Log2(v) == IF v >= 2 * FP THEN 16384 + Log2((v + 1) \div 2) ELSE Log2Frac(v, 8192, 0)

\* np.log10 for v >= 1.0 (log10(2) = 0.30103).
Log10(v) == RDiv(Log2(v) * 30103, 163840)

\* -ln(t) for 0 < t <= 1.0 (ln(2) = 0.69315): -ln t = ln 2 * log2(1 / t).
NegLn(t) == RDiv(Log2(RDiv(FP * FP, t)) * 6931, 16384)

\* t ** x of numpy for 0 <= t <= 1.0 and x > 0.
Pow(t, x) == IF t = 0 THEN 0 ELSE Exp(-FMul(NegLn(t), x))

\* u ** -0.5 of numpy for 0 < u <= 1.0.
PowNegHalf(u) == RDiv(FP * FP, ISqrt(u * FP))

----------------------------------------------------------------------------
(* numpy arrays: [shape |-> <<d1, ..., dr>>, data |-> row-major values].   *)
(* A scalar (0-d array) has shape << >> and one value.                     *)

Max(a, b) == IF a >= b THEN a ELSE b

\* Product of s[k], ..., s[Len(s)].
RECURSIVE Prod(_, _)
Prod(s, k) == IF k > Len(s) THEN 1 ELSE s[k] * Prod(s, k + 1)

Size(s) == Prod(s, 1)
Stride(s, k) == Prod(s, k + 1)
Scalar(v) == [shape |-> << >>, data |-> <<v>>]
Vec(d) == [shape |-> <<Len(d)>>, data |-> d]
Col(d) == [shape |-> <<Len(d), 1>>, data |-> d]

\* Dimension k of shape s once s is padded on the left with ones to rank r.
Dim(s, k, r) == IF k > r - Len(s) THEN s[k - (r - Len(s))] ELSE 1

\* numpy's broadcasting rule for two shapes.
Broadcastable(s1, s2) ==
    LET r == Max(Len(s1), Len(s2))
    IN  \A k \in 1..r : Dim(s1, k, r) = Dim(s2, k, r) \/ Dim(s1, k, r) = 1 \/ Dim(s2, k, r) = 1

BShape(s1, s2) ==
    LET r == Max(Len(s1), Len(s2))
    IN  [k \in 1..r |-> IF Dim(s1, k, r) = 1 THEN Dim(s2, k, r) ELSE Dim(s1, k, r)]

\* Coordinate k (0-based) of the n-th element (1-based) of an array of shape s.
Coord(s, n, k) == ((n - 1) \div Stride(s, k)) % s[k]

\* Offset in an operand of shape as of the n-th element of the broadcast result rs.
RECURSIVE Off(_, _, _, _)
Off(as, rs, n, j) ==
    IF j > Len(as) THEN 0
    ELSE (IF as[j] = 1 THEN 0 ELSE Coord(rs, n, j + Len(rs) - Len(as)) * Stride(as, j))
         + Off(as, rs, n, j + 1)

At(a, rs, n) == a.data[1 + Off(a.shape, rs, n, 1)]

\* Elementwise a * b, a ** b and a + b with broadcasting (the shapes must be
\* broadcastable).
ArrMul(a, b) ==
    LET rs == BShape(a.shape, b.shape)
    IN  [shape |-> rs, data |-> [n \in 1..Size(rs) |-> FMul(At(a, rs, n), At(b, rs, n))]]

ArrPow(a, b) ==
    LET rs == BShape(a.shape, b.shape)
    IN  [shape |-> rs, data |-> [n \in 1..Size(rs) |-> Pow(At(a, rs, n), At(b, rs, n))]]

ArrAdd(a, b) ==
    LET rs == BShape(a.shape, b.shape)
    IN  [shape |-> rs, data |-> [n \in 1..Size(rs) |-> At(a, rs, n) + At(b, rs, n)]]

\* Elementwise -a and np.exp(a).
ArrNeg(a) == [shape |-> a.shape, data |-> [n \in 1..Len(a.data) |-> -a.data[n]]]
ArrExp(a) == [shape |-> a.shape, data |-> [n \in 1..Len(a.data) |-> Exp(a.data[n])]]

\* np.atleast_1d
AtLeast1d(a) == IF a.shape = << >> THEN [shape |-> <<1>>, data |-> a.data] ELSE a

\* np.zeros_like
ZerosLike(a) == [shape |-> a.shape, data |-> [n \in 1..Len(a.data) |-> 0]]

\* The values of a set of integers in increasing order.
RECURSIVE SortedSeq(_)
SortedSeq(S) ==
    IF S = {} THEN << >>
    ELSE LET m == CHOOSE v \in S : \A w \in S : v <= w
         IN  <<m>> \o SortedSeq(S \ {m})

\* np.unique: the sorted distinct values, as a 1-D array.
Unique(a) == Vec(SortedSeq({a.data[n] : n \in 1..Len(a.data)}))

\* np.searchsorted(sorted, v) with side='left': 0-based insertion index.
SearchSorted1(sorted, v) == Cardinality({n \in 1..Len(sorted.data) : sorted.data[n] < v})

SearchSorted(sorted, a) ==
    [shape |-> a.shape, data |-> [n \in 1..Len(a.data) |-> SearchSorted1(sorted, a.data[n])]]

\* np.squeeze(a, -1) for an array whose last axis has one element.
SqueezeLast(a) == [shape |-> SubSeq(a.shape, 1, Len(a.shape) - 1), data |-> a.data]

\* a.reshape(-1, 1)
ReshapeCol(a) == [shape |-> <<Len(a.data), 1>>, data |-> a.data]

\* a[idx] for an integer index array idx (0-based) along the first axis of a.
TakeOk(a, idx) == \A n \in 1..Len(idx.data) : idx.data[n] < a.shape[1]

Take(a, idx) ==
    LET row == Stride(a.shape, 1)
    IN  [shape |-> idx.shape \o Tail(a.shape),
         data  |-> [n \in 1..(Len(idx.data) * row) |->
                       a.data[(idx.data[1 + ((n - 1) \div row)] * row) + 1 + ((n - 1) % row)]]]

----------------------------------------------------------------------------
(* airmass_ag and airglow_scattering.  Zenith angles are integers in       *)
(* hundredths of a degree, 0 <= z <= 9000.                                 *)

\* (1 - 0.972 * sin(deg2rad(z)) ** 2) ** -0.5 for one angle.
AirmassOf(z) ==
    LET s == Sin(Deg2Rad(z))
    IN  PowNegHalf(FP - RDiv(972 * FMul(s, s), 1000))

\* A wrong airmass, with the exponent +0.5 in place of -0.5.
AirmassSqrt(z) ==
    LET s == Sin(Deg2Rad(z))
    IN  ISqrt((FP - RDiv(972 * FMul(s, s), 1000)) * FP)

airmass_ag_sqrt(z) ==
    [shape |-> z.shape, data |-> [n \in 1..Len(z.data) |-> AirmassSqrt(z.data[n])]]

airmass_ag(z) ==
    [shape |-> z.shape, data |-> [n \in 1..Len(z.data) |-> AirmassOf(z.data[n])]]

ScatterR(X) == RDiv(1669 * Log10(X), 1000) - 1460
ScatterM(X) == RDiv(1732 * Log10(X), 1000) - 3180

\* A wrong scattering model that returns the Rayleigh multiplier for Mie too.
airglow_scattering_same(z) ==
    LET X == airmass_ag(z)
        f == [shape |-> X.shape, data |-> [n \in 1..Len(X.data) |-> ScatterR(X.data[n])]]
    IN  [fR |-> f, fM |-> f]

airglow_scattering(z) ==
    LET X == airmass_ag(z)
    IN  [fR |-> [shape |-> X.shape, data |-> [n \in 1..Len(X.data) |-> ScatterR(X.data[n])]],
         fM |-> [shape |-> X.shape, data |-> [n \in 1..Len(X.data) |-> ScatterM(X.data[n])]]]

----------------------------------------------------------------------------
(* The collaborators of get_airglow: the atmosphere table, the density     *)
(* preserving resampler and the optical depths of skysim.transmission.     *)
(* Wavelengths are integers in nm, pressures in hPa, elevations in         *)
(* hundredths of a km.                                                     *)

\* The columns of skysim.utils.data.get('atmosphere').
AtmosphereTable ==
    [wavelength   |-> Vec(<<400, 600, 800, 1000>>),
     airglow_cont |-> Vec(<<740, 1100, 2930, 2160>>),
     airglow_line |-> Vec(<<290, 1940, 8140, 15520>>),
     trans_ma     |-> Vec(<<10000, 9600, 7500, 9000>>)]

\* The target bin a source wavelength w falls in: the nearest point of lam.
NearestBin(lam, w) ==
    CHOOSE j \in 1..Len(lam.data) :
        \A k \in 1..Len(lam.data) :
            \/ Abs(lam.data[j] - w) < Abs(lam.data[k] - w)
            \/ Abs(lam.data[j] - w) = Abs(lam.data[k] - w) /\ j <= k

RECURSIVE SumOver(_, _, _)
SumOver(d, base, I) ==
    IF I = {} THEN 0
    ELSE LET i == CHOOSE i \in I : TRUE IN d[base + i] + SumOver(d, base, I \ {i})

\* resample_density(lam, ag_lam, v): the mean density over each target bin,
\* along the last axis of v and for every row of its leading axes.
resample_density(lam, ag_lam, v) ==
    LET T    == Len(ag_lam.data)
        L    == Len(lam.data)
        rows == Len(v.data) \div T
        Bin(j) == {i \in 1..T : NearestBin(lam, ag_lam.data[i]) = j}
        Near(j) == CHOOSE i \in 1..T : \A k \in 1..T :
                       Abs(ag_lam.data[i] - lam.data[j]) <= Abs(ag_lam.data[k] - lam.data[j])
        Val(r, j) == IF Bin(j) = {} THEN v.data[(r * T) + Near(j)]
                     ELSE RDiv(SumOver(v.data, r * T, Bin(j)), Cardinality(Bin(j)))
    IN  [shape |-> SubSeq(v.shape, 1, Len(v.shape) - 1) \o <<L>>,
         data  |-> [n \in 1..(rows * L) |-> Val((n - 1) \div L, 1 + ((n - 1) % L))]]

\* (1000 nm / lam) ** 4, with two decimals.
InvLam4(lam) ==
    LET q  == RDiv(1000 * FP, lam)
        q2 == RDiv(FMul(q, q), 100)
    IN  RDiv(q2 * q2, 100)

\* tau0R(lam, p, H) = p / 1013.25 * (0.00864 + 6.5e-6 H) * lam ** -4 (lam in um),
\* elementwise over the broadcast of lam, p and H.
PressureTerm(p, H) == RDiv(p * (8640 + RDiv(65 * H, 1000)), 1013)
TauR(pt, lam) == RDiv(pt * InvLam4(lam), FP)
tau0R(lam, p, H) ==
    LET rs == BShape(BShape(p.shape, H.shape), lam.shape)
    IN  [shape |-> rs,
         data  |-> [n \in 1..Size(rs) |->
                       TauR(PressureTerm(At(p, rs, n), At(H, rs, n)), At(lam, rs, n))]]

\* tau0M(lam) = 0.02 / lam (lam in um).
TauM(lam) == RDiv(200 * 1000, lam)
tau0M(lam) == [shape |-> lam.shape, data |-> [n \in 1..Len(lam.data) |-> TauM(lam.data[n])]]

----------------------------------------------------------------------------
(* The state: the heap of arrays, the shared atmosphere table in it, and   *)
(* one call of get_airglow with its arguments, locals and outcome.         *)

VARIABLES pc, args, fr, heap, result, err

vars == <<pc, args, fr, heap, result, err>>

\* Bounds of the model.
MaxRows == 4
MaxVec == 2
MaxPRows == 2

\* The zenith angles of the model: the zenith, 20 degrees, and the angle at
\* which the Mie multiplier fM changes sign.
Angles == {0, 2000, 5002}

\* The addresses of the table's column arrays (atm[name].data).
atm == [wavelength |-> 1, airglow_cont |-> 2, airglow_line |-> 3, trans_ma |-> 4]

TableHeap ==
    <<AtmosphereTable.wavelength, AtmosphereTable.airglow_cont,
      AtmosphereTable.airglow_line, AtmosphereTable.trans_ma>>

\* A name that is not bound yet.
Undef == [undef |-> TRUE]
NoErr == [kind |-> "none", msg |-> ""]

\* The locals of a call before any is bound.  log is history: the stages
\* (absorb, resample, scatter) applied to cont and line so far, in order.
EmptyFrame ==
    [lam |-> Undef, z |-> Undef, z_unique |-> Undef, z_compressed |-> FALSE,
     idx_out |-> Undef, cont |-> 0, line |-> 0, Xag |-> Undef, transmission |-> 0,
     ag_lam |-> 0, fR |-> Undef, fM |-> Undef, tau0 |-> 0, scattering |-> Undef,
     log |-> << >>]

\* A new array on the heap.
Alloc(h, v) == [heap |-> Append(h, v), addr |-> Len(h) + 1]

\* ndarray.copy()
Copy(h, a) == Alloc(h, h[a])

\* t ** x done in place: the result overwrites the array t.
HPowInPlace(h, t, x) == [heap |-> [h EXCEPT ![t] = ArrPow(h[t], x)], addr |-> t]

\* t ** x: a new array.
HPow(h, t, x) == Alloc(h, ArrPow(h[t], x))

\* a * b: a new array.
HMul(h, a, b) == Alloc(h, ArrMul(h[a], b))

\* a += b: in place, and only when broadcasting b leaves the shape of a as it is.
IAddOk(h, a, b) ==
    Broadcastable(h[a].shape, b.shape) /\ BShape(h[a].shape, b.shape) = h[a].shape

IAdd(h, a, b) == [h EXCEPT ![a] = ArrAdd(h[a], b)]

\* The outcome of a step: the next statement, or an exception.
Out(next, f, h) == [pc |-> next, fr |-> f, heap |-> h, result |-> Undef, err |-> NoErr]

Raise(kind, msg, f, h) ==
    [pc |-> "raised", fr |-> f, heap |-> h, result |-> Undef,
     err |-> [kind |-> kind, msg |-> msg]]

BroadcastError(f, h) == Raise("ValueError", "operands could not be broadcast together", f, h)

----------------------------------------------------------------------------
(* get_airglow, statement by statement.                                    *)

\* A wrong test that also compresses at exactly 3/4.
CompressAtThreeQuarters(z_unique, z) == 4 * Size(z_unique.shape) <= 3 * Size(z.shape)

\* if 4 * z_unique.size < 3 * z.size
Compress(z_unique, z) == 4 * Size(z_unique.shape) < 3 * Size(z.shape)

\* Lines 94-105: coerce the inputs and deduplicate the zenith angles.
StepDedup(a, f, h) ==
    LET lam      == AtLeast1d(a.lam)
        z        == a.z
        z_unique == Unique(z)
        f1       == [f EXCEPT !.lam = lam, !.z = z, !.z_unique = z_unique]
        f2       == [f1 EXCEPT !.z_compressed = TRUE]
    IN  IF Compress(z_unique, z)
        THEN IF Len(z.shape) = 0
             THEN Raise("IndexError", "tuple index out of range", f2, h)
             ELSE IF z.shape[Len(z.shape)] # 1
             THEN \* assert z.shape[-1] == 1 carries no message
                  Raise("AssertionError", "", f2, h)
             ELSE Out("lookup",
                      [f2 EXCEPT !.idx_out = SearchSorted(z_unique, SqueezeLast(z)),
                                 !.z = ReshapeCol(z_unique)], h)
        ELSE Out("lookup", [f1 EXCEPT !.z_compressed = FALSE], h)

\* Lines 107-109: copy the unextincted fluxes out of the table.
StepLookup(a, f, h) ==
    LET c == Copy(h, atm.airglow_cont)
        l == Copy(c.heap, atm.airglow_line)
    IN  Out("absorb", [f EXCEPT !.cont = c.addr, !.line = l.addr], l.heap)

\* Wrong: the airmass is computed only when absorption is applied.
StepAbsorbXagInside(a, f, h) ==
    IF a.absorption
    THEN LET Xag == airmass_ag(f.z)
             f1  == [f EXCEPT !.Xag = Xag]
         IN  IF ~Broadcastable(h[atm.trans_ma].shape, Xag.shape)
             THEN BroadcastError(f1, h)
             ELSE LET t == HPow(h, atm.trans_ma, Xag)
                      c == HMul(t.heap, f.cont, t.heap[t.addr])
                      l == HMul(c.heap, f.line, t.heap[t.addr])
                  IN  Out("resample",
                          [f1 EXCEPT !.transmission = t.addr, !.cont = c.addr,
                                     !.line = l.addr, !.log = Append(@, "absorb")],
                          l.heap)
    ELSE Out("resample", f, h)

\* Lines 111-115: the airmass, and absorption on the table's wavelength grid.
StepAbsorb(a, f, h) ==
    LET Xag == airmass_ag(f.z)
        f1  == [f EXCEPT !.Xag = Xag]
    IN  IF a.absorption
        THEN IF ~Broadcastable(h[atm.trans_ma].shape, Xag.shape)
             THEN BroadcastError(f1, h)
             ELSE LET t == HPow(h, atm.trans_ma, Xag)
                      c == HMul(t.heap, f.cont, t.heap[t.addr])
                      l == HMul(c.heap, f.line, t.heap[t.addr])
                  IN  Out("resample",
                          [f1 EXCEPT !.transmission = t.addr, !.cont = c.addr,
                                     !.line = l.addr, !.log = Append(@, "absorb")],
                          l.heap)
        ELSE Out("resample", f1, h)

\* Lines 117-119: resample both fluxes onto the caller's wavelength grid.
StepResample(a, f, h) ==
    LET g == Copy(h, atm.wavelength)
        c == Alloc(g.heap, resample_density(f.lam, g.heap[g.addr], g.heap[f.cont]))
        l == Alloc(c.heap, resample_density(f.lam, g.heap[g.addr], c.heap[f.line]))
    IN  Out("scatter",
            [f EXCEPT !.ag_lam = g.addr, !.cont = c.addr, !.line = l.addr,
                      !.log = Append(@, "resample")],
            l.heap)

\* tau0 += factor * tau: [ok, heap].
AddTerm(h, tau0, factor, tau) ==
    IF ~Broadcastable(factor.shape, tau.shape) THEN [ok |-> FALSE, heap |-> h]
    ELSE LET term == ArrMul(factor, tau)
         IN  IF IAddOk(h, tau0, term) THEN [ok |-> TRUE, heap |-> IAdd(h, tau0, term)]
             ELSE [ok |-> FALSE, heap |-> h]

\* Lines 121-130: the net Rayleigh and Mie scattering.
StepScatter(a, f, h) ==
    IF a.Rayleigh \/ a.Mie
    THEN LET s  == airglow_scattering(f.z)
             t0 == Alloc(h, ZerosLike(h[f.cont]))
             f1 == [f EXCEPT !.fR = s.fR, !.fM = s.fM, !.tau0 = t0.addr]
             r1 == IF a.Rayleigh
                   THEN AddTerm(t0.heap, t0.addr, s.fR, tau0R(f.lam, a.p, a.H))
                   ELSE [ok |-> TRUE, heap |-> t0.heap]
             r2 == IF r1.ok /\ a.Mie
                   THEN AddTerm(r1.heap, t0.addr, s.fM, tau0M(f.lam))
                   ELSE r1
         IN  IF ~r2.ok THEN BroadcastError(f1, r2.heap)
             ELSE IF ~Broadcastable(r2.heap[t0.addr].shape, f.Xag.shape)
             THEN BroadcastError(f1, r2.heap)
             ELSE LET scattering == ArrExp(ArrMul(ArrNeg(r2.heap[t0.addr]), f.Xag))
                      f2 == [f1 EXCEPT !.scattering = scattering]
                  IN  IF ~Broadcastable(h[f.cont].shape, scattering.shape)
                      THEN BroadcastError(f2, r2.heap)
                      ELSE LET c == HMul(r2.heap, f.cont, scattering)
                               l == HMul(c.heap, f.line, scattering)
                           IN  Out("gather",
                                   [f2 EXCEPT !.cont = c.addr, !.line = l.addr,
                                              !.log = Append(@, "scatter")],
                                   l.heap)
    ELSE Out("gather", f, h)

\* Lines 132-137: repeat the rows of equal zenith angles and return.
StepGather(a, f, h) ==
    IF f.z_compressed
    THEN IF ~(TakeOk(h[f.cont], f.idx_out) /\ TakeOk(h[f.line], f.idx_out))
         THEN Raise("IndexError", "index is out of bounds for axis 0", f, h)
         ELSE [pc |-> "done", fr |-> f, heap |-> h, err |-> NoErr,
               result |-> [cont |-> Take(h[f.cont], f.idx_out),
                           line |-> Take(h[f.line], f.idx_out)]]
    ELSE [pc |-> "done", fr |-> f, heap |-> h, err |-> NoErr,
          result |-> [cont |-> h[f.cont], line |-> h[f.line]]]

\* A whole call get_airglow(lam, z, p, H, Rayleigh, Mie, absorption) on heap h.
Run(a, h) ==
    LET m1 == StepDedup(a, EmptyFrame, h)
        m2 == IF m1.pc = "raised" THEN m1 ELSE StepLookup(a, m1.fr, m1.heap)
        m3 == IF m2.pc = "raised" THEN m2 ELSE StepAbsorb(a, m2.fr, m2.heap)
        m4 == IF m3.pc = "raised" THEN m3 ELSE StepResample(a, m3.fr, m3.heap)
        m5 == IF m4.pc = "raised" THEN m4 ELSE StepScatter(a, m4.fr, m4.heap)
    IN  IF m5.pc = "raised" THEN m5 ELSE StepGather(a, m5.fr, m5.heap)

----------------------------------------------------------------------------
(* The inputs of the model and the actions.                                *)

RECURSIVE SeqsOf(_, _)
SeqsOf(S, n) ==
    IF n = 0 THEN {<< >>} ELSE {Append(q, v) : q \in SeqsOf(S, n - 1), v \in S}

ZInputs ==
    {Scalar(v) : v \in Angles}
    \cup UNION {{Col(d) : d \in SeqsOf(Angles, n)} : n \in 0..MaxRows}
    \cup UNION {{Vec(d) : d \in SeqsOf(Angles, n)} : n \in 1..MaxVec}

LamInputs == {Scalar(700), Vec(<<500, 900>>), Vec(<<400, 600, 800, 1000>>)}

\* Pressures: the default 744 hPa, or a column of k pressures.
PInputs == {Scalar(744)} \cup {Col([i \in 1..k |-> 764 - (20 * i)]) : k \in 1..MaxPRows}

\* Elevations: the default 2.64 km.
HInputs == {Scalar(264)}

NoArgs ==
    [lam |-> Undef, z |-> Undef, p |-> Undef, H |-> Undef,
     Rayleigh |-> FALSE, Mie |-> FALSE, absorption |-> FALSE]

Init ==
    /\ pc = "idle"
    /\ args = NoArgs
    /\ fr = EmptyFrame
    /\ heap = TableHeap
    /\ result = Undef
    /\ err = NoErr

Set(m) ==
    /\ pc' = m.pc
    /\ fr' = m.fr
    /\ heap' = m.heap
    /\ result' = m.result
    /\ err' = m.err
    /\ UNCHANGED args

Call ==
    /\ pc = "idle"
    /\ \E lam \in LamInputs, z \in ZInputs, p \in PInputs, H \in HInputs,
          R \in BOOLEAN, M \in BOOLEAN, A \in BOOLEAN :
          args' = [lam |-> lam, z |-> z, p |-> p, H |-> H,
                   Rayleigh |-> R, Mie |-> M, absorption |-> A]
    /\ pc' = "dedup"
    /\ UNCHANGED <<fr, heap, result, err>>

Dedup == pc = "dedup" /\ Set(StepDedup(args, fr, heap))
Lookup == pc = "lookup" /\ Set(StepLookup(args, fr, heap))
Absorb == pc = "absorb" /\ Set(StepAbsorb(args, fr, heap))
Resample == pc = "resample" /\ Set(StepResample(args, fr, heap))
Scatter == pc = "scatter" /\ Set(StepScatter(args, fr, heap))
Gather == pc = "gather" /\ Set(StepGather(args, fr, heap))

\* The call returns or its exception propagates; its locals are dropped.
Return ==
    /\ pc \in {"done", "raised"}
    /\ pc' = "idle"
    /\ args' = NoArgs
    /\ fr' = EmptyFrame
    /\ heap' = SubSeq(heap, 1, Len(TableHeap))
    /\ result' = Undef
    /\ err' = NoErr

Next == Call \/ Dedup \/ Lookup \/ Absorb \/ Resample \/ Scatter \/ Gather \/ Return

Spec == Init /\ [][Next]_vars

----------------------------------------------------------------------------
(* A second specification that applies airmass_ag alone, to every zenith   *)
(* angle below the limit and to arrays of zeros.                           *)

\* The largest zenith angle tried, in hundredths of a degree (88.69 degrees).
MaxZenith == 8869
MaxZeros == 5

AirmassInputs ==
    {Scalar(v) : v \in 0..MaxZenith}
    \cup {Vec([i \in 1..n |-> 0]) : n \in 1..MaxZeros}
    \cup {Vec(<<1500, 2000, 2500, 3000, 3500, 4000>>)}

AirmassCall ==
    /\ pc = "idle"
    /\ \E z \in AirmassInputs :
          fr' = [EmptyFrame EXCEPT !.z = z, !.Xag = airmass_ag(z)]
    /\ pc' = "airmass"
    /\ UNCHANGED <<args, heap, result, err>>

AirmassReturn ==
    /\ pc = "airmass"
    /\ pc' = "idle"
    /\ fr' = EmptyFrame
    /\ UNCHANGED <<args, heap, result, err>>

NextAirmass == AirmassCall \/ AirmassReturn

SpecAirmass == Init /\ [][NextAirmass]_vars

----------------------------------------------------------------------------
(* Properties.                                                             *)

\* The call has gone through lines 94-105.
Deduplicated == pc \notin {"idle", "dedup", "airmass"}

\* Number of elements and of distinct values of the zenith angles passed in.
ZSize == Size(args.z.shape)
ZDistinct == Cardinality({args.z.data[n] : n \in 1..Len(args.z.data)})
TrailingOne == Len(args.z.shape) > 0 /\ args.z.shape[Len(args.z.shape)] = 1
DefaultPressure == args.p = Scalar(744) /\ args.H = Scalar(264)

\* The slice a[pos] (pos from 1) along the first axis of a.
Row(a, pos) ==
    LET row == Stride(a.shape, 1)
    IN  [shape |-> Tail(a.shape), data |-> SubSeq(a.data, ((pos - 1) * row) + 1, pos * row)]

\* The call with zenith angle z alone, on a pristine table.
SingleAngle(z) == Run([args EXCEPT !.z = Scalar(z)], TableHeap)

\* C1: on the compressed path (default p and H), the rows returned at each
\* position of z are the rows the call with that position's angle alone returns.
CompressedRowsMatchSingleCalls ==
    (pc = "done" /\ fr.z_compressed /\ TrailingOne /\ DefaultPressure) =>
        \A pos \in 1..ZSize :
            LET one == SingleAngle(args.z.data[pos])
            IN  /\ one.pc = "done"
                /\ Len(result.cont.shape) > 0 /\ Len(result.line.shape) > 0
                /\ Row(result.cont, pos) = one.result.cont
                /\ Row(result.line, pos) = one.result.line

\* C2: a compressed call whose z has no trailing axis of one element fails with
\* a precondition error that carries a message, and returns nothing.
CompressedPreconditionDescriptive ==
    (Deduplicated /\ fr.z_compressed /\ ~TrailingOne) =>
        /\ pc = "raised"
        /\ err.kind # "AssertionError"
        /\ err.msg # ""
        /\ result = Undef

\* C3: the arrays of the shared atmosphere table never change.
TableUnchanged ==
    /\ Len(heap) >= Len(TableHeap)
    /\ \A name \in DOMAIN atm : heap[atm[name]] = AtmosphereTable[name]

\* C3 witness: a compressed call with all three effects has returned.
TableWitness ==
    /\ pc = "done" /\ fr.z_compressed
    /\ args.Rayleigh /\ args.Mie /\ args.absorption
    /\ ZSize = 3 /\ result.cont.shape = <<3, 2>>
    /\ heap[fr.cont] # AtmosphereTable.airglow_cont

\* The shape the result is said to have.
ExpectedShape ==
    IF fr.z_compressed
    THEN SubSeq(args.z.shape, 1, Len(args.z.shape) - 1) \o AtLeast1d(args.lam).shape
    ELSE BShape(args.z.shape, AtLeast1d(args.lam).shape)

\* C4: for a scalar z or a nonempty z with a trailing axis of one element, the
\* returned arrays have the shape of z (without its last axis when compressed) broadcast
\* with lam.
ResultShapeIsBroadcast ==
    (/\ pc = "done" /\ DefaultPressure
     /\ Len(args.z.shape) = 0 \/ TrailingOne
     /\ ZSize > 0) =>
        /\ result.cont.shape = ExpectedShape
        /\ result.line.shape = ExpectedShape

\* C5: with an array of pressures broadcastable against z and Rayleigh on (and
\* absorption on), the call succeeds and the result has the broadcast shape of
\* z, p and lam.
PressureArrayBroadcasts ==
    (/\ pc \in {"done", "raised"}
     /\ args.Rayleigh /\ args.absorption
     /\ Len(args.p.shape) > 0
     /\ Len(args.z.shape) = 0 \/ TrailingOne
     /\ Broadcastable(args.z.shape, args.p.shape)) =>
        /\ pc = "done"
        /\ result.cont.shape =
               BShape(BShape(args.z.shape, args.p.shape), AtLeast1d(args.lam).shape)
        /\ result.line.shape = result.cont.shape

\* Exactly one of the three switches is off.
OneOff ==
    \/ ~args.Rayleigh /\ args.Mie /\ args.absorption
    \/ args.Rayleigh /\ ~args.Mie /\ args.absorption
    \/ args.Rayleigh /\ args.Mie /\ ~args.absorption

\* The same call with the three switches on.
Baseline ==
    Run([args EXCEPT !.Rayleigh = TRUE, !.Mie = TRUE, !.absorption = TRUE], TableHeap)

RemovedTermNeutral ==
    LET lam == AtLeast1d(args.lam)
        X(n) == AirmassOf(args.z.data[n])
    IN  \A n \in 1..Len(args.z.data) :
            /\ ~args.Rayleigh =>
                   \A j \in 1..Len(lam.data) :
                       FMul(ScatterR(X(n)), TauR(PressureTerm(744, 264), lam.data[j])) = 0
            /\ ~args.Mie =>
                   \A j \in 1..Len(lam.data) : FMul(ScatterM(X(n)), TauM(lam.data[j])) = 0
            /\ ~args.absorption =>
                   \A i \in 1..Len(AtmosphereTable.trans_ma.data) :
                       Pow(AtmosphereTable.trans_ma.data[i], X(n)) = FP

AirmassAtLeastOne ==
    pc = "airmass" =>
        /\ fr.Xag.shape = fr.z.shape
        /\ \A n \in 1..Len(fr.z.data) :
               /\ fr.Xag.data[n] >= FP
               /\ fr.z.data[n] = 0 => fr.Xag.data[n] = FP

\* C7 witness: an array of zeros gives an array of ones.
AirmassWitness ==
    /\ pc = "airmass"
    /\ fr.z = Vec(<<0, 0, 0, 0, 0>>)
    /\ fr.Xag = Vec(<<FP, FP, FP, FP, FP>>)

\* C8: compressed mode is entered exactly when 4 * distinct < 3 * total; never
\* for a scalar, a single element, an empty z or all distinct values.
CompressedIffBelowThreeQuarters ==
    Deduplicated =>
        /\ fr.z_compressed <=> (4 * ZDistinct < 3 * ZSize)
        /\ (ZSize <= 1 \/ ZDistinct = ZSize) => ~fr.z_compressed

\* C8 witness: three distinct values among four elements are not compressed.
ThreeQuartersWitness ==
    /\ pc = "lookup"
    /\ ZSize = 4 /\ ZDistinct = 3
    /\ ~fr.z_compressed

\* The first half of C9: idx_out maps every position to the index of its angle in z_unique, has
\* the shape of z without its last axis, and the gather puts at each position
\* the row computed for that angle.
IdxOutReproduces ==
    (Deduplicated /\ pc # "raised" /\ fr.z_compressed) =>
        /\ fr.idx_out.shape = SubSeq(args.z.shape, 1, Len(args.z.shape) - 1)
        /\ \A pos \in 1..ZSize :
               /\ fr.idx_out.data[pos] \in 0..(Len(fr.z_unique.data) - 1)
               /\ fr.z_unique.data[fr.idx_out.data[pos] + 1] = args.z.data[pos]

\* C9 as stated: the index properties and the rows the gather places.
GatherPlacesRows ==
    IdxOutReproduces /\
    ((pc = "done" /\ fr.z_compressed /\ DefaultPressure) =>
        /\ heap[fr.cont].shape = <<Len(fr.z_unique.data), Len(fr.lam.data)>>
        /\ heap[fr.line].shape = <<Len(fr.z_unique.data), Len(fr.lam.data)>>
        /\ \A pos \in 1..ZSize :
               /\ Row(result.cont, pos) = Row(heap[fr.cont], fr.idx_out.data[pos] + 1)
               /\ Row(result.line, pos) = Row(heap[fr.line], fr.idx_out.data[pos] + 1))

\* Stage x has run before stage y, if y has run at all.
Before(x, y) ==
    \A j \in 1..Len(fr.log) : fr.log[j] = y => \E i \in 1..(j - 1) : fr.log[i] = x
Ran(x) == \E i \in 1..Len(fr.log) : fr.log[i] = x

\* C10: when scattering is applied, Xag is bound and comes from the same z
\* as fR and fM; scattering follows the resampling, absorption precedes it.
ScatteringUsesAirmassAfterResample ==
    /\ (pc = "scatter" /\ (args.Rayleigh \/ args.Mie)) =>
           /\ fr.Xag # Undef
           /\ Len(fr.Xag.data) = Len(fr.z.data)
           /\ \A n \in 1..Len(fr.z.data) : fr.Xag.data[n] = AirmassOf(fr.z.data[n])
           /\ Ran("resample")
    /\ Ran("scatter") =>
           /\ fr.Xag.shape = fr.z.shape /\ fr.fR.shape = fr.z.shape /\ fr.fM.shape = fr.z.shape
           /\ \A n \in 1..Len(fr.z.data) :
                  /\ fr.Xag.data[n] = AirmassOf(fr.z.data[n])
                  /\ fr.fR.data[n] = ScatterR(fr.Xag.data[n])
                  /\ fr.fM.data[n] = ScatterM(fr.Xag.data[n])
    /\ Before("resample", "scatter")
    /\ Ran("absorb") /\ Ran("resample") => Before("absorb", "resample")
    /\ (pc \in {"scatter", "gather", "done"} /\ args.absorption) => Ran("absorb")

\* C10 witness: scattering was applied in a call without absorption.
ScatterWitness ==
    /\ pc = "gather"
    /\ args.Rayleigh /\ args.Mie /\ ~args.absorption
    /\ fr.log = <<"resample", "scatter">>
    /\ fr.z = Scalar(2000) /\ fr.Xag = Scalar(AirmassOf(2000))
    /\ fr.scattering # Undef

====
